---- MODULE Spec2Model ----
(***************************************************************************)
(* GoTUI plugin panel: the Bubble Tea update loop of the host (model,     *)
(* Update), the commands it dispatches (fetchFiles, downloadFile,         *)
(* deleteFile, loadPlugin, processSelectedFiles), the alias ledger        *)
(* (.pluginbashrc) and the plugin storage directory.                      *)
(*                                                                         *)
(* Conventions: repository and entry indices are 1-based here (0-based in *)
(* the Go code; a header's fileIdx is 0 here, -1 there); cursor,          *)
(* activePanel and scrollOffset keep the code's 0-based values.           *)
(* logs keeps the length of m.logs, its last entry (by kind) and the      *)
(* number of its "not downloaded" warnings.                               *)
(***************************************************************************)
EXTENDS Integers, Sequences, FiniteSets, TLC

\* ------------------------------------------------------------------ bounds
MaxBatches == 1      \* commits the operator performs
MaxOverlap == 2      \* commits the operator performs when no plugin is run
MaxLoads == 1        \* plugin loads the operator requests
MaxWarnings == 1     \* executions the operator tries on an entry not downloaded
MaxSignals == 1      \* quit signals a guest emits
MaxReloads == 2      \* plugin loads the operator requests when no batch is run

\* --------------------------------------------------------------- constants
LogWindow == 57      \* lines of the log panel used by the scroll keys
leftPanelWidth == 35 \* columns of the two left panels
IndicatorLen == 3    \* len("\u25bc") = len("\u25b6"): bytes of the fold indicator
StampLen == 11       \* len("[15:04:05] "): bytes addLog puts before a message

\* ------------------------------------------------------------ environment
\* A repo.conf with one catalog source listing one entry.
OneEntry ==
  << [name |-> "R0", files |-> << [name |-> "a", type |-> "file"] >>] >>

\* A repo.conf with one catalog source, as a sequence in configuration order.
OneSource ==
  << [name |-> "R0", files |-> << [name |-> "a", type |-> "file"],
                                  [name |-> "b", type |-> "file"] >>] >>

\* A repo.conf with two catalog sources, of two entries and of one.
TwoSources ==
  << [name |-> "R0", files |-> << [name |-> "a", type |-> "file"],
                                  [name |-> "b", type |-> "file"] >>],
     [name |-> "R1", files |-> << [name |-> "c", type |-> "file"] >>] >>

\* A repo.conf with two catalog sources that both list an entry "a".
SharedName ==
  << [name |-> "R0", files |-> << [name |-> "a", type |-> "file"] >>],
     [name |-> "R1", files |-> << [name |-> "a", type |-> "file"] >>] >>

\* A repo.conf with one catalog source listing an entry with a short name
\* and an entry whose name has 32 bytes.
LongName ==
  << [name |-> "TWilhem/Plugin",
      files |-> << [name |-> "a", type |-> "file"],
                   [name |-> "network-bandwidth-monitor-tui.so",
                    type |-> "file"] >>] >>

\* The window sizes the terminal reports.
Widths == {40, 48, 120}

Heights == {24}

\* The catalog names whose published file is a Go plugin exporting
\* NewTUI func() tea.Model; every other listed file is something else.
Plugins == {"a"}

\* Identifiers a guest may put after "PLUGIN_QUIT:".
QuitIds == {"", "zz"}

\* The keys the operator presses ("k" and "j" are handled as "up" and
\* "down"; "x" stands for every key Update has no case for).
Keys == {"q", "ctrl+c", "tab", "up", "down", "enter", " ", "e", "c",
         "ctrl+up", "ctrl+down", "x"}

\* Commands a guest's Init/Update may return: nothing, tea.Quit, or a command
\* producing the string message "PLUGIN_QUIT:<id>".
GuestCmds ==
  {[kind |-> "nil", id |-> ""], [kind |-> "Quit", id |-> ""]}
    \cup {[kind |-> "emit", id |-> i] : i \in QuitIds}

NilCmd == [kind |-> "nil", id |-> ""]

\* m.embeddedTUI: nil, or the tea.Model built by newTUI() in one run of
\* loadPlugin (load) from the file of one plugin.
NilTUI == [nil |-> TRUE, plugin |-> "", load |-> << >>]

NoStatus == ""

\* ------------------------------------------------------------ pure helpers
Dec(n) == CASE n = 0 -> "0" [] n = 1 -> "1" [] n = 2 -> "2" [] n = 3 -> "3"
            [] n = 4 -> "4" [] n = 5 -> "5" [] n = 6 -> "6" [] n = 7 -> "7"
            [] n = 8 -> "8" [] OTHER -> "9"

Scan(s) == CASE s = "0" -> 0 [] s = "1" -> 1 [] s = "2" -> 2 [] s = "3" -> 3
             [] s = "4" -> 4 [] s = "5" -> 5 [] s = "6" -> 6 [] s = "7" -> 7
             [] s = "8" -> 8 [] s = "9" -> 9 [] OTHER -> 0

\* key := fmt.Sprintf("%d:%d", line.repoIdx, line.fileIdx), with the code's
\* 0-based indices.
FormatKey(r, f) == << Dec(r - 1), ":", Dec(f - 1) >>

\* strings.Split(key, ":") for a key of single-digit fields.
SplitKey(key) == SelectSeq(key, LAMBDA c : c # ":")

addLog(m, tag) ==
  [m EXCEPT !.logs = [n |-> @.n + 1, last |-> tag,
                      warnings |-> IF tag = "not_downloaded" THEN @.warnings + 1
                                   ELSE @.warnings]]

RECURSIVE FileLines(_, _, _)
FileLines(repoIdx, nfiles, fileIdx) ==
  IF fileIdx > nfiles THEN << >>
  ELSE << [isHeader |-> FALSE, repoIdx |-> repoIdx, fileIdx |-> fileIdx] >>
         \o FileLines(repoIdx, nfiles, fileIdx + 1)

\* A projection that lists the files of collapsed repositories too.
RECURSIVE LinesFromAll(_, _)
LinesFromAll(repos, repoIdx) ==
  IF repoIdx > Len(repos) THEN << >>
  ELSE << [isHeader |-> TRUE, repoIdx |-> repoIdx, fileIdx |-> 0] >>
         \o FileLines(repoIdx, Len(repos[repoIdx].files), 1)
         \o LinesFromAll(repos, repoIdx + 1)

RECURSIVE LinesFrom(_, _)
LinesFrom(repos, repoIdx) ==
  IF repoIdx > Len(repos) THEN << >>
  ELSE << [isHeader |-> TRUE, repoIdx |-> repoIdx, fileIdx |-> 0] >>
         \o (IF ~repos[repoIdx].collapsed
               THEN FileLines(repoIdx, Len(repos[repoIdx].files), 1)
               ELSE << >>)
         \o LinesFrom(repos, repoIdx + 1)

\* A rebuild that appends to the old projection instead of starting empty.
buildDisplayLinesAppend(m) ==
  [m EXCEPT !.displayLines = @ \o LinesFrom(m.repos, 1)]

buildDisplayLines(m) == [m EXCEPT !.displayLines = LinesFrom(m.repos, 1)]

\* ------------------------------------------------------------ alias ledger
\* The ledger file is a sequence of tokens: "NL" is a newline, Alias(n) is
\* the text  alias <stem>='<dir>/Chargeur <pluginDir>/<n>'  and any other
\* token is foreign text.
Alias(name) == << "alias", name >>

NL == << "NL" >>

Contains(content, name) ==
  \E i \in 1..(Len(content) - 1) :
     content[i] = Alias(name) /\ content[i + 1] = NL

RECURSIVE SplitNL(_)
SplitNL(content) ==
  IF \A i \in 1..Len(content) : content[i] # NL THEN << content >>
  ELSE LET i == CHOOSE j \in 1..Len(content) :
                   content[j] = NL /\ \A k \in 1..(j - 1) : content[k] # NL
       IN << SubSeq(content, 1, i - 1) >>
            \o SplitNL(SubSeq(content, i + 1, Len(content)))

RECURSIVE JoinNL(_)
JoinNL(lines) ==
  IF Len(lines) = 0 THEN << >>
  ELSE IF Len(lines) = 1 THEN lines[1]
  ELSE lines[1] \o << NL >> \o JoinNL(Tail(lines))

HasPrefix(line, name) == Len(line) > 0 /\ line[1] = Alias(name)

\* A delete that also drops the empty lines of the file.
removeAliasDropEmptyLines(led, name) ==
  IF ~led.exists THEN [led |-> led, err |-> TRUE]
  ELSE [led |-> [led EXCEPT !.content =
                   JoinNL(SelectSeq(SplitNL(@),
                                    LAMBDA l : ~HasPrefix(l, name) /\ l # << >>))],
        err |-> FALSE]

\* Returns the new ledger and whether an error was returned.
addAliasToPluginBashrc(led, name) ==
  IF led.exists /\ Contains(led.content, name)
    THEN [led |-> led, err |-> FALSE]
  ELSE IF ~led.exists
    THEN [led |-> led, err |-> TRUE]
  ELSE [led |-> [led EXCEPT !.content = @ \o << Alias(name), NL >>],
        err |-> FALSE]

removeAliasFromPluginBashrc(led, name) ==
  IF ~led.exists THEN [led |-> led, err |-> TRUE]
  ELSE [led |-> [led EXCEPT !.content =
                   JoinNL(SelectSeq(SplitNL(@),
                                    LAMBDA l : ~HasPrefix(l, name)))],
        err |-> FALSE]

\* ---------------------------------------------------------------- messages
Msg(type, key, name, op, err, id, repos) ==
  [type |-> type, key |-> key, name |-> name, op |-> op, err |-> err,
   id |-> id, repos |-> repos]

KeyMsg(k) == Msg("key", k, "", "", FALSE, << >>, << >>)

TickMsg == Msg("tick", "", "", "", FALSE, << >>, << >>)

\* tea.WindowSizeMsg{Width: w, Height: h}
WindowSizeMsg(w, h) ==
  [type |-> "windowSize", key |-> "", name |-> "", op |-> "", err |-> FALSE,
   id |-> << >>, repos |-> << >>, width |-> w, height |-> h]

\* ------------------------------------------------------------------ Update
\* Every handler returns the new model, the returned command, the ledger,
\* which method of the guest was called ("none", "Update" or "Init") and
\* whether the handler returned (ret) or fell through to the end of Update.
Result(m, cmd, led, ret) ==
  [m |-> m, cmd |-> cmd, led |-> led, guest |-> "none", ret |-> ret]

Cmd(kind, id) == [kind |-> kind, id |-> id]

\* A quit check that demands the identifier even when the session has none.
QuitAcceptedStrict(m, id) == m.embeddedPluginID = id

\* m.embeddedPluginID == "" || m.embeddedPluginID == id
QuitAccepted(m, id) == m.embeddedPluginID = "" \/ m.embeddedPluginID = id

\* An embedded branch in which the host looks at the quit keys itself.
EmbeddedBranchHostQuit(m, msg, g, led) ==
  IF msg.type = "key" /\ msg.key \in {"q", "ctrl+c"}
    THEN [Result(m, Cmd("Quit", ""), led, TRUE) EXCEPT !.guest = "Update"]
  ELSE IF msg.type = "string" /\ msg.op = "PLUGIN_QUIT:"
          /\ QuitAccepted(m, msg.name)
    THEN [Result([addLog(m, "plugin_stopped") EXCEPT
                    !.embeddedTUI = NilTUI, !.embeddedPluginID = "",
                    !.runningTUI = "", !.activePanel = 0],
                 NilCmd, led, TRUE) EXCEPT !.guest = "Update"]
  ELSE [Result(m, g, led, TRUE) EXCEPT !.guest = "Update"]

\* The branch taken when a guest is installed and the right panel has focus.
EmbeddedBranch(m, msg, g, led) ==
  IF msg.type = "string" /\ msg.op = "PLUGIN_QUIT:" /\ QuitAccepted(m, msg.name)
    THEN [Result([addLog(m, "plugin_stopped") EXCEPT
                    !.embeddedTUI = NilTUI, !.embeddedPluginID = "",
                    !.runningTUI = "", !.activePanel = 0],
                 NilCmd, led, TRUE) EXCEPT !.guest = "Update"]
  ELSE [Result(m, g, led, TRUE) EXCEPT !.guest = "Update"]

\* A panel cycle that ignores the loading and processing flags.
OnTabUnguarded(m, k) ==
  IF k = "tab"
    THEN [m EXCEPT !.activePanel = IF ~m.embeddedTUI.nil THEN (@ + 1) % 3
                                   ELSE (@ + 1) % 2,
                   !.scrollOffset = 0]
  ELSE m

OnTab(m, k) ==
  IF k = "tab" /\ ~m.loading /\ ~m.processing
    THEN [m EXCEPT !.activePanel = IF ~m.embeddedTUI.nil THEN (@ + 1) % 3
                                   ELSE (@ + 1) % 2,
                   !.scrollOffset = 0]
  ELSE m

\* m.displayLines[m.cursor]; an index out of range is a runtime panic.
InRange(m) == m.cursor >= 0 /\ m.cursor < Len(m.displayLines)

LineAt(m) == m.displayLines[m.cursor + 1]

FileAt(m, line) == m.repos[line.repoIdx].files[line.fileIdx]

\* An enter that drops the selected entries of the repository it folds.
OnEnterPurge(m, led) ==
  LET line == LineAt(m) IN
  IF line.isHeader
    THEN LET m1 == buildDisplayLines(
                     [m EXCEPT !.repos[line.repoIdx].collapsed = ~@,
                               !.selected =
                                 {key \in @ : Scan(key[1]) + 1 # line.repoIdx}])
         IN Result(IF m1.cursor >= Len(m1.displayLines)
                     THEN [m1 EXCEPT !.cursor = Len(m1.displayLines) - 1]
                     ELSE m1,
                   NilCmd, led, FALSE)
  ELSE IF Cardinality(m.selected) > 0
    THEN Result(addLog([m EXCEPT !.processing = TRUE,
                                 !.statusMsg = "Traitement..."],
                       "batch_start"),
                Cmd("processSelectedFiles", ""), led, TRUE)
  ELSE Result(m, NilCmd, led, FALSE)

\* An enter that toggles the collapsed flag without rebuilding the projection.
OnEnterNoRebuild(m, led) ==
  LET line == LineAt(m) IN
  IF line.isHeader
    THEN Result([m EXCEPT !.repos[line.repoIdx].collapsed = ~@],
                NilCmd, led, FALSE)
  ELSE IF Cardinality(m.selected) > 0
    THEN Result(addLog([m EXCEPT !.processing = TRUE,
                                 !.statusMsg = "Traitement..."],
                       "batch_start"),
                Cmd("processSelectedFiles", ""), led, TRUE)
  ELSE Result(m, NilCmd, led, FALSE)

OnEnter(m, led) ==
  LET line == LineAt(m) IN
  IF line.isHeader
    THEN LET m1 == buildDisplayLines(
                     [m EXCEPT !.repos[line.repoIdx].collapsed = ~@])
         IN Result(IF m1.cursor >= Len(m1.displayLines)
                     THEN [m1 EXCEPT !.cursor = Len(m1.displayLines) - 1]
                     ELSE m1,
                   NilCmd, led, FALSE)
  ELSE IF Cardinality(m.selected) > 0
    THEN Result(addLog([m EXCEPT !.processing = TRUE,
                                 !.statusMsg = "Traitement..."],
                       "batch_start"),
                Cmd("processSelectedFiles", ""), led, TRUE)
  ELSE Result(m, NilCmd, led, FALSE)

\* A space that also selects header lines.
OnSpaceAnyLine(m) ==
  LET line == LineAt(m)
      key == FormatKey(line.repoIdx, line.fileIdx)
  IN IF key \in m.selected THEN [m EXCEPT !.selected = @ \ {key}]
     ELSE [m EXCEPT !.selected = @ \cup {key}]

\* A space that only ever adds the entry to the Selection Set.
OnSpaceAdd(m) ==
  LET line == LineAt(m) IN
  IF ~line.isHeader
    THEN [m EXCEPT !.selected = @ \cup {FormatKey(line.repoIdx, line.fileIdx)}]
  ELSE m

OnSpace(m) ==
  LET line == LineAt(m) IN
  IF ~line.isHeader
    THEN LET key == FormatKey(line.repoIdx, line.fileIdx) IN
         IF key \in m.selected THEN [m EXCEPT !.selected = @ \ {key}]
         ELSE [m EXCEPT !.selected = @ \cup {key}]
  ELSE m

\* An execute that does not consult Local Inventory.
OnExecuteAlways(m, led) ==
  LET line == LineAt(m) IN
  IF ~line.isHeader
    THEN LET file == FileAt(m, line) IN
         Result(addLog([m EXCEPT !.runningTUI = file.name,
                                 !.activePanel = 2], "plugin_loading"),
                Cmd("loadPlugin", file.name), led, TRUE)
  ELSE Result(m, NilCmd, led, FALSE)

OnExecute(m, led) ==
  LET line == LineAt(m) IN
  IF ~line.isHeader
    THEN LET file == FileAt(m, line) IN
         IF file.name \in m.localFiles
           THEN Result(addLog([m EXCEPT !.runningTUI = file.name,
                                        !.activePanel = 2], "plugin_loading"),
                       Cmd("loadPlugin", file.name), led, TRUE)
         ELSE Result(addLog(m, "not_downloaded"), NilCmd, led, FALSE)
  ELSE Result(m, NilCmd, led, FALSE)

\* Catalog keys handled even when the projection is empty.
OnCatalogKeyAnyProjection(m, k, led) ==
  IF ~(~m.loading /\ ~m.processing /\ m.activePanel = 0)
    THEN Result(m, NilCmd, led, FALSE)
  ELSE IF k \in {"up", "k"}
    THEN Result(IF m.cursor > 0 THEN [m EXCEPT !.cursor = @ - 1] ELSE m,
                NilCmd, led, FALSE)
  ELSE IF k \in {"down", "j"}
    THEN Result(IF m.cursor < Len(m.displayLines) - 1
                  THEN [m EXCEPT !.cursor = @ + 1] ELSE m,
                NilCmd, led, FALSE)
  ELSE IF k \in {"enter", " ", "e"} /\ ~InRange(m)
    THEN Result(m, Cmd("panic", ""), led, TRUE)
  ELSE IF k = "enter" THEN OnEnter(m, led)
  ELSE IF k = " " THEN Result(OnSpace(m), NilCmd, led, FALSE)
  ELSE IF k = "e" THEN OnExecute(m, led)
  ELSE IF k = "c" THEN Result([m EXCEPT !.selected = {}], NilCmd, led, FALSE)
  ELSE Result(m, NilCmd, led, FALSE)

\* Catalog keys whose "down" does not stop at the last line.
OnCatalogKeyUnbounded(m, k, led) ==
  IF ~(~m.loading /\ ~m.processing /\ Len(m.displayLines) > 0
       /\ m.activePanel = 0)
    THEN Result(m, NilCmd, led, FALSE)
  ELSE IF k \in {"up", "k"}
    THEN Result(IF m.cursor > 0 THEN [m EXCEPT !.cursor = @ - 1] ELSE m,
                NilCmd, led, FALSE)
  ELSE IF k \in {"down", "j"}
    THEN Result([m EXCEPT !.cursor = @ + 1], NilCmd, led, FALSE)
  ELSE IF k \in {"enter", " ", "e"} /\ ~InRange(m)
    THEN Result(m, Cmd("panic", ""), led, TRUE)
  ELSE IF k = "enter" THEN OnEnter(m, led)
  ELSE IF k = " " THEN Result(OnSpace(m), NilCmd, led, FALSE)
  ELSE IF k = "e" THEN OnExecute(m, led)
  ELSE IF k = "c" THEN Result([m EXCEPT !.selected = {}], NilCmd, led, FALSE)
  ELSE Result(m, NilCmd, led, FALSE)

\* Keys of the top panel.
OnCatalogKey(m, k, led) ==
  IF ~(~m.loading /\ ~m.processing /\ Len(m.displayLines) > 0
       /\ m.activePanel = 0)
    THEN Result(m, NilCmd, led, FALSE)
  ELSE IF k \in {"up", "k"}
    THEN Result(IF m.cursor > 0 THEN [m EXCEPT !.cursor = @ - 1] ELSE m,
                NilCmd, led, FALSE)
  ELSE IF k \in {"down", "j"}
    THEN Result(IF m.cursor < Len(m.displayLines) - 1
                  THEN [m EXCEPT !.cursor = @ + 1] ELSE m,
                NilCmd, led, FALSE)
  ELSE IF k \in {"enter", " ", "e"} /\ ~InRange(m)
    THEN Result(m, Cmd("panic", ""), led, TRUE)
  ELSE IF k = "enter" THEN OnEnter(m, led)
  ELSE IF k = " " THEN Result(OnSpace(m), NilCmd, led, FALSE)
  ELSE IF k = "e" THEN OnExecute(m, led)
  ELSE IF k = "c" THEN Result([m EXCEPT !.selected = {}], NilCmd, led, FALSE)
  ELSE Result(m, NilCmd, led, FALSE)

\* Scroll keys of the log panel.
OnLogKey(m, k) ==
  IF ~(m.activePanel = 1 /\ m.logs.n > 0) THEN m
  ELSE IF k \in {"up", "k"}
    THEN (IF m.scrollOffset > 0 THEN [m EXCEPT !.scrollOffset = @ - 1] ELSE m)
  ELSE IF k \in {"down", "j"}
    THEN (IF m.scrollOffset < m.logs.n - LogWindow
            THEN [m EXCEPT !.scrollOffset = @ + 1] ELSE m)
  ELSE IF k = "ctrl+up" THEN [m EXCEPT !.scrollOffset = 0]
  ELSE IF k = "ctrl+down" THEN [m EXCEPT !.scrollOffset = m.logs.n - LogWindow]
  ELSE m

OnKey(m, k, led) ==
  IF k = "q" \/ k = "ctrl+c" THEN Result(m, Cmd("Quit", ""), led, TRUE)
  ELSE LET r == OnCatalogKey(OnTab(m, k), k, led) IN
       IF r.ret THEN r ELSE [r EXCEPT !.m = OnLogKey(@, k)]

\* os.Stat(filepath.Join(m.pluginDir, file.Name)) succeeds.
Stat(sto, name) == sto[name] # "none"

CatalogNames(repos) ==
  UNION {{repos[r].files[f].name : f \in 1..Len(repos[r].files)} :
           r \in 1..Len(repos)}

OnFilesLoaded(m, msg, led, sto) ==
  IF msg.err
    THEN Result(addLog([m EXCEPT !.loading = FALSE, !.err = "load_error"],
                       "load_error"),
                NilCmd, led, FALSE)
  ELSE Result(buildDisplayLines(
                addLog([m EXCEPT !.loading = FALSE, !.repos = msg.repos,
                                 !.localFiles =
                                   {n \in CatalogNames(msg.repos) : Stat(sto, n)}],
                       "repos_loaded")),
              NilCmd, led, FALSE)

\* A completion handler that treats a ledger failure as a failed operation.
OnOperationCompleteStrict(m, msg, led) ==
  LET a == IF msg.op = "download" THEN addAliasToPluginBashrc(led, msg.name)
           ELSE removeAliasFromPluginBashrc(led, msg.name)
  IN IF msg.err \/ a.err
       THEN Result(addLog([m EXCEPT !.statusMsg = "Erreur"],
                          IF msg.err THEN "op_error" ELSE "alias_warning"),
                   NilCmd, led, FALSE)
     ELSE IF msg.op = "download"
       THEN Result(addLog(addLog([m EXCEPT !.statusMsg = "telecharge",
                                           !.localFiles = @ \cup {msg.name}],
                                 "downloaded"), "alias_added"),
                   NilCmd, a.led, FALSE)
     ELSE LET m2 == addLog(addLog([m EXCEPT !.statusMsg = "supprime",
                                            !.localFiles = @ \ {msg.name}],
                                  "deleted"), "alias_removed")
          IN Result(IF m2.runningTUI = msg.name
                      THEN [m2 EXCEPT !.embeddedTUI = NilTUI, !.runningTUI = ""]
                      ELSE m2,
                    NilCmd, a.led, FALSE)

OnOperationComplete(m, msg, led) ==
  IF msg.err
    THEN Result(addLog([m EXCEPT !.statusMsg = "Erreur"],
                       "op_error"),
                NilCmd, led, FALSE)
  ELSE IF msg.op = "download"
    THEN LET a == addAliasToPluginBashrc(led, msg.name)
             m1 == addLog([m EXCEPT !.statusMsg = "telecharge",
                                    !.localFiles = @ \cup {msg.name}],
                          "downloaded")
         IN Result(addLog(m1, IF a.err THEN "alias_warning" ELSE "alias_added"),
                   NilCmd, a.led, FALSE)
  ELSE LET a == removeAliasFromPluginBashrc(led, msg.name)
           m1 == addLog([m EXCEPT !.statusMsg = "supprime",
                                  !.localFiles = @ \ {msg.name}],
                        "deleted")
           m2 == addLog(m1, IF a.err THEN "alias_warning" ELSE "alias_removed")
       IN Result(IF m2.runningTUI = msg.name
                   THEN [m2 EXCEPT !.embeddedTUI = NilTUI, !.runningTUI = ""]
                   ELSE m2,
                 NilCmd, a.led, FALSE)

\* A terminal event handler that forgets to clear the processing flag.
OnAllOperationsCompleteKeep(m, led) ==
  Result(addLog([m EXCEPT !.selected = {}, !.statusMsg = "terminees"],
                "all_done"),
         Cmd("tick3s", ""), led, TRUE)

OnAllOperationsComplete(m, led) ==
  Result(addLog([m EXCEPT !.processing = FALSE, !.selected = {},
                          !.statusMsg = "terminees"],
                "all_done"),
         Cmd("tick3s", ""), led, TRUE)

\* g is the command returned by the Init of the guest just installed.
\* A load handler that gives the session the plugin's name as identifier.
OnPluginLoadedTagged(m, msg, g, led) ==
  IF msg.err
    THEN Result(addLog([m EXCEPT !.runningTUI = "", !.activePanel = 0],
                       "plugin_error"),
                NilCmd, led, FALSE)
  ELSE [Result(addLog([m EXCEPT !.embeddedTUI =
                                  [nil |-> FALSE, plugin |-> msg.name,
                                   load |-> msg.id],
                                !.embeddedPluginID = msg.name],
                      "plugin_loaded"),
               g, led, TRUE) EXCEPT !.guest = "Init"]

\* A load handler that gives the focus to the guest it installs.
OnPluginLoadedFocus(m, msg, g, led) ==
  IF msg.err
    THEN Result(addLog([m EXCEPT !.runningTUI = "", !.activePanel = 0],
                       "plugin_error"),
                NilCmd, led, FALSE)
  ELSE [Result(addLog([m EXCEPT !.embeddedTUI =
                                  [nil |-> FALSE, plugin |-> msg.name,
                                   load |-> msg.id],
                                !.activePanel = 2],
                      "plugin_loaded"),
               g, led, TRUE) EXCEPT !.guest = "Init"]

OnPluginLoaded(m, msg, g, led) ==
  IF msg.err
    THEN Result(addLog([m EXCEPT !.runningTUI = "", !.activePanel = 0],
                       "plugin_error"),
                NilCmd, led, FALSE)
  ELSE [Result(addLog([m EXCEPT !.embeddedTUI =
                                  [nil |-> FALSE, plugin |-> msg.name,
                                   load |-> msg.id]],
                      "plugin_loaded"),
               g, led, TRUE) EXCEPT !.guest = "Init"]

\* strings.Contains(m.statusMsg, "...")
IsProgress(status) == status = "Traitement..."

OnTick(m, led) ==
  IF m.loading \/ m.processing THEN Result(m, Cmd("tickCmd", ""), led, TRUE)
  ELSE IF m.statusMsg # NoStatus /\ ~IsProgress(m.statusMsg)
    THEN Result([m EXCEPT !.statusMsg = NoStatus], NilCmd, led, FALSE)
  ELSE Result(m, NilCmd, led, FALSE)

\* case tea.WindowSizeMsg: the size of the window is recorded.
OnWindowSize(m, msg, led) ==
  Result([m EXCEPT !.width = msg.width, !.height = msg.height], NilCmd, led,
         FALSE)

\* The type switch of Update.
HostSwitch(m, msg, g, led, sto) ==
  CASE msg.type = "key" -> OnKey(m, msg.key, led)
    [] msg.type = "windowSize" -> OnWindowSize(m, msg, led)
    [] msg.type = "filesLoaded" -> OnFilesLoaded(m, msg, led, sto)
    [] msg.type = "operationComplete" -> OnOperationComplete(m, msg, led)
    [] msg.type = "allOperationsComplete" -> OnAllOperationsComplete(m, led)
    [] msg.type = "pluginLoaded" -> OnPluginLoaded(m, msg, g, led)
    [] msg.type = "tick" -> OnTick(m, led)
    [] OTHER -> Result(m, NilCmd, led, FALSE)

\* The guest is installed and the right panel has focus.
GuestHasFocus(m) == ~m.embeddedTUI.nil /\ m.activePanel = 2

\* An Update that forwards the event to the guest even after the host's
\* switch has returned.
UpdateForwardAlways(m, msg, g, led, sto) ==
  IF GuestHasFocus(m) THEN EmbeddedBranch(m, msg, g, led)
  ELSE LET h == HostSwitch(m, msg, g, led, sto) IN
       IF h.guest = "Init" THEN h
       ELSE IF ~h.m.embeddedTUI.nil THEN [h EXCEPT !.cmd = g, !.guest = "Update"]
       ELSE IF h.ret THEN h
       ELSE [h EXCEPT !.cmd = NilCmd]

\* Update(msg): g is the command the guest returns if it is called in this
\* step (from its Update, or from its Init on a successful load).
Update(m, msg, g, led, sto) ==
  IF GuestHasFocus(m) THEN EmbeddedBranch(m, msg, g, led)
  ELSE LET h == HostSwitch(m, msg, g, led, sto) IN
       IF h.ret THEN h
       ELSE IF ~h.m.embeddedTUI.nil THEN [h EXCEPT !.cmd = g, !.guest = "Update"]
       ELSE [h EXCEPT !.cmd = NilCmd]

\* -------------------------------------------------------------------- View
rightPanelWidth(m) == m.width - leftPanelWidth - 4

rightPanelHeight(m) == (m.height - 1) - 2

\* len of the text View writes for line l: the fold indicator, a space and
\* the repository name for a header, the two-byte prefix and the entry name
\* for a file.
DisplayLen(m, l) ==
  IF l.isHeader THEN IndicatorLen + 1 + Len(m.repos[l.repoIdx].name)
  ELSE 2 + Len(m.repos[l.repoIdx].files[l.fileIdx].name)

\* The counts View passes to strings.Repeat to pad the cursor line.
PaddingCounts(m) ==
  IF m.loading \/ m.err # "" \/ Len(m.repos) = 0 THEN {}
  ELSE {leftPanelWidth - DisplayLen(m, m.displayLines[i]) - 4 :
          i \in {j \in 1..Len(m.displayLines) :
                   j - 1 = m.cursor /\ m.activePanel = 0}}

\* The window of log entries the right panel shows: [start, end).
VisibleLogs(m) ==
  LET most == IF m.scrollOffset = 0 THEN rightPanelHeight(m) - 3
              ELSE rightPanelHeight(m) - 5
      maxLogs == IF most < 1 THEN 1 ELSE most
      from == m.logs.n - maxLogs - m.scrollOffset
      visibleStart == IF from < 0 THEN 0 ELSE from
      visibleEnd == IF visibleStart + maxLogs > m.logs.n THEN m.logs.n
                    ELSE visibleStart + maxLogs
  IN [start |-> visibleStart, end |-> visibleEnd]

\* The upper bounds of the slices log[:maxLogWidth-3] View takes: in the
\* bottom panel for an entry longer than the panel, in the right panel for
\* the entries shown, each at least StampLen long.
TruncationBounds(m) ==
  (IF m.logs.n # 0 THEN {(leftPanelWidth - 6) - 3} ELSE {})
    \cup (IF /\ m.embeddedTUI.nil /\ m.activePanel = 1 /\ m.logs.n # 0
              /\ VisibleLogs(m).start < VisibleLogs(m).end
              /\ StampLen > rightPanelWidth(m) - 6
            THEN {(rightPanelWidth(m) - 6) - 3} ELSE {})

\* View: strings.Repeat panics on a negative count and a slice expression
\* on a negative bound.
View(m) ==
  IF \/ \E n \in PaddingCounts(m) : n < 0
     \/ \E b \in TruncationBounds(m) : b < 0
    THEN "panic" ELSE "ok"

\* ---------------------------------------------------------------- commands
\* A classification that fetches what is present and removes what is absent.
processSelectedFilesSwapped(m, b) ==
  LET valid == {key \in m.selected :
                  /\ Len(SplitKey(key)) = 2
                  /\ Scan(SplitKey(key)[1]) < Len(m.repos)
                  /\ Scan(SplitKey(key)[2])
                       < Len(m.repos[Scan(SplitKey(key)[1]) + 1].files)}
      fileOf(key) == m.repos[Scan(SplitKey(key)[1]) + 1]
                        .files[Scan(SplitKey(key)[2]) + 1]
  IN {[kind |-> IF fileOf(key).name \in m.localFiles THEN "download"
                ELSE "delete",
       name |-> fileOf(key).name, type |-> fileOf(key).type,
       id |-> << b, key >>] : key \in valid}

\* A batch with one command per selected file name.
processSelectedFilesByName(m, b) ==
  LET valid == {key \in m.selected :
                  /\ Len(SplitKey(key)) = 2
                  /\ Scan(SplitKey(key)[1]) < Len(m.repos)
                  /\ Scan(SplitKey(key)[2])
                       < Len(m.repos[Scan(SplitKey(key)[1]) + 1].files)}
      fileOf(key) == m.repos[Scan(SplitKey(key)[1]) + 1]
                        .files[Scan(SplitKey(key)[2]) + 1]
      first(n) == CHOOSE key \in valid : fileOf(key).name = n
  IN {[kind |-> IF n \in m.localFiles THEN "delete" ELSE "download",
       name |-> n, type |-> fileOf(first(n)).type,
       id |-> << b, first(n) >>] : n \in {fileOf(key).name : key \in valid}}

\* The per-entry commands built by processSelectedFiles for batch b.
processSelectedFiles(m, b) ==
  LET valid == {key \in m.selected :
                  /\ Len(SplitKey(key)) = 2
                  /\ Scan(SplitKey(key)[1]) < Len(m.repos)
                  /\ Scan(SplitKey(key)[2])
                       < Len(m.repos[Scan(SplitKey(key)[1]) + 1].files)}
      fileOf(key) == m.repos[Scan(SplitKey(key)[1]) + 1]
                        .files[Scan(SplitKey(key)[2]) + 1]
  IN {[kind |-> IF fileOf(key).name \in m.localFiles THEN "delete"
                ELSE "download",
       name |-> fileOf(key).name, type |-> fileOf(key).type,
       id |-> << b, key >>] : key \in valid}

\* ------------------------------------------------------------------- state
VARIABLES
  repos, loading, processing, err, cursor, statusMsg, localFiles, selected,
  activePanel, logs, runningTUI, embeddedTUI, scrollOffset, embeddedPluginID,
  displayLines, width, height,   \* the fields of model
  conf,              \* repo.conf: the catalog sources configured
  quota,             \* commits and plugin loads the operator performs at most
  storage,           \* plugin directory: name -> "none", "full" (the remote
                     \* file) or "broken" (a truncated file or an error page)
  ledger,            \* .pluginbashrc
  inflight,          \* commands running off the update loop
  msgs,              \* events produced and not yet processed by Update
  ticks,             \* tick events pending
  running,           \* "running", "quit" (tea.Quit returned) or "panic"
  nbatch, nload, nsignal,   \* commits, plugin loads, guest signals so far
  batches,           \* per commit: Local Inventory and Selection Set then
  done               \* completion events Update has been called with

hostVars == << repos, loading, processing, err, cursor, statusMsg, localFiles,
               selected, activePanel, logs, runningTUI, embeddedTUI,
               scrollOffset, embeddedPluginID, displayLines, width, height >>

envVars == << conf, quota, storage, ledger, inflight, msgs, ticks, running, nbatch, nload,
              nsignal, batches, done >>

vars == << hostVars, envVars >>

\* The model value assembled from its fields.
Model ==
  [repos |-> repos, loading |-> loading, processing |-> processing,
   err |-> err, cursor |-> cursor, statusMsg |-> statusMsg,
   localFiles |-> localFiles, selected |-> selected,
   activePanel |-> activePanel, logs |-> logs, runningTUI |-> runningTUI,
   embeddedTUI |-> embeddedTUI, scrollOffset |-> scrollOffset,
   embeddedPluginID |-> embeddedPluginID, displayLines |-> displayLines,
   width |-> width, height |-> height]

Install(m) ==
  /\ repos' = m.repos /\ loading' = m.loading /\ processing' = m.processing
  /\ err' = m.err /\ cursor' = m.cursor /\ statusMsg' = m.statusMsg
  /\ localFiles' = m.localFiles /\ selected' = m.selected
  /\ activePanel' = m.activePanel /\ logs' = m.logs
  /\ runningTUI' = m.runningTUI /\ embeddedTUI' = m.embeddedTUI
  /\ scrollOffset' = m.scrollOffset
  /\ embeddedPluginID' = m.embeddedPluginID
  /\ displayLines' = m.displayLines
  /\ width' = m.width /\ height' = m.height

initialModel ==
  [repos |-> << >>, loading |-> TRUE, processing |-> FALSE, err |-> "",
   cursor |-> 0, statusMsg |-> NoStatus, localFiles |-> {}, selected |-> {},
   activePanel |-> 0, logs |-> [n |-> 0, last |-> "", warnings |-> 0], runningTUI |-> "",
   embeddedTUI |-> NilTUI, scrollOffset |-> 0, embeddedPluginID |-> "",
   displayLines |-> << >>, width |-> 0, height |-> 0]

\* The ledger as written by the install subcommand.
InstalledLedger ==
  [exists |-> TRUE, content |-> << << "text", "header" >>, NL >>]

\* The names listed by the sources of a repo.conf.
EntryNames(c) == CatalogNames(c)

\* The ledger of an installation in which the alias of plugin "a" was
\* appended by an earlier run and never deleted.
AliasedLedger ==
  [exists |-> TRUE,
   content |-> InstalledLedger.content \o << Alias("a"), NL >>]

\* No installation was done: the ledger file does not exist.
MissingLedger == [exists |-> FALSE, content |-> << >>]

\* main: initialModel, then Init() = tea.Batch(fetchFiles, tickCmd); the
\* ledger file is one of leds.
InitFrom(c, q, leds) ==
  /\ repos = initialModel.repos /\ loading = initialModel.loading
  /\ processing = initialModel.processing /\ err = initialModel.err
  /\ cursor = initialModel.cursor /\ statusMsg = initialModel.statusMsg
  /\ localFiles = initialModel.localFiles /\ selected = initialModel.selected
  /\ activePanel = initialModel.activePanel /\ logs = initialModel.logs
  /\ runningTUI = initialModel.runningTUI
  /\ embeddedTUI = initialModel.embeddedTUI
  /\ scrollOffset = initialModel.scrollOffset
  /\ embeddedPluginID = initialModel.embeddedPluginID
  /\ displayLines = initialModel.displayLines
  /\ width = initialModel.width /\ height = initialModel.height
  /\ conf = c
  /\ quota = q
  /\ storage \in [EntryNames(c) -> {"none", "full"}]
  /\ ledger \in leds
  /\ inflight = {[kind |-> "fetchFiles", name |-> "", type |-> "", id |-> << >>]}
  /\ msgs = {}
  /\ ticks = 1
  /\ running = "running"
  /\ nbatch = 0 /\ nload = 0 /\ nsignal = 0
  /\ batches = << >>
  /\ done = {}

InitWith(c, q) == InitFrom(c, q, {InstalledLedger})

\* ----------------------------------------------------------------- actions
Alive == running = "running"

\* A loop that gives up at the first source whose listing fails.
LoadedUntilFailure(Sources, ok) ==
  LET F[i \in 0..Len(Sources)] ==
        IF i = 0 THEN << >>
        ELSE IF \A j \in 1..i : j \in ok
          THEN F[i - 1] \o << [name |-> Sources[i].name,
                               files |-> Sources[i].files,
                               collapsed |-> FALSE] >>
        ELSE F[i - 1]
  IN F[Len(Sources)]

\* The repositories of the sources that answered, in configuration order.
Loaded(Sources, ok) ==
  LET F[i \in 0..Len(Sources)] ==
        IF i = 0 THEN << >>
        ELSE IF i \in ok
          THEN F[i - 1] \o << [name |-> Sources[i].name,
                               files |-> Sources[i].files,
                               collapsed |-> FALSE] >>
        ELSE F[i - 1]
  IN F[Len(Sources)]

\* fetchFiles with a repo.conf listing Sources: ok is the set of sources
\* whose listing could be fetched.
fetchFiles(Sources, ok) ==
  IF Len(Loaded(Sources, ok)) = 0
    THEN Msg("filesLoaded", "", "", "", TRUE, << >>, << >>)
  ELSE Msg("filesLoaded", "", "", "", FALSE, << >>, Loaded(Sources, ok))

RunFetchFiles ==
  /\ Alive
  /\ \E c \in inflight :
       /\ c.kind = "fetchFiles"
       /\ \E ok \in SUBSET (1..Len(conf)) :
            /\ msgs' = msgs \cup {fetchFiles(conf, ok)}
            /\ inflight' = inflight \ {c}
  /\ UNCHANGED << hostVars, conf, quota, storage, ledger, ticks, running, nbatch, nload,
                  nsignal, batches, done >>

DownloadOutcomes(c) ==
  IF c.type # "file" THEN {"not_file"}
  ELSE {"get_err", "create_err", "copy_err", "http_status", "ok"}

\* The permission bits downloadFile passes to os.Chmod: 0644.
ChmodMode == 420

\* downloadFile: the file after the command, the error it reports and the
\* mode given to os.Chmod (the empty sequence when Chmod is not reached).
downloadFile(c, outcome, sto) ==
  CASE outcome \in {"not_file", "get_err", "create_err"} ->
         [sto |-> sto, err |-> TRUE, chmod |-> << >>]
    [] outcome = "copy_err" ->
         [sto |-> [sto EXCEPT ![c.name] = "broken"], err |-> TRUE,
          chmod |-> << >>]
    [] outcome = "http_status" ->
         [sto |-> [sto EXCEPT ![c.name] = "broken"], err |-> FALSE,
          chmod |-> << ChmodMode >>]
    [] OTHER ->
         [sto |-> [sto EXCEPT ![c.name] = "full"], err |-> FALSE,
          chmod |-> << ChmodMode >>]

RunDownload ==
  /\ Alive
  /\ \E c \in inflight :
       /\ c.kind = "download"
       /\ \E outcome \in DownloadOutcomes(c) :
            LET d == downloadFile(c, outcome, storage) IN
            /\ storage' = d.sto
            /\ msgs' = msgs \cup {Msg("operationComplete", "", c.name,
                                      "download", d.err, c.id, << >>)}
       /\ inflight' = inflight \ {c}
  /\ UNCHANGED << hostVars, conf, quota, ledger, ticks, running, nbatch, nload, nsignal,
                  batches, done >>

\* deleteFile: os.Remove fails on a missing file and may fail on a present one.
deleteFile(c, refused, sto) ==
  IF sto[c.name] = "none" \/ refused THEN [sto |-> sto, err |-> TRUE]
  ELSE [sto |-> [sto EXCEPT ![c.name] = "none"], err |-> FALSE]

RunDelete ==
  /\ Alive
  /\ \E c \in inflight :
       /\ c.kind = "delete"
       /\ \E refused \in BOOLEAN :
            LET d == deleteFile(c, refused, storage) IN
            /\ storage' = d.sto
            /\ msgs' = msgs \cup {Msg("operationComplete", "", c.name,
                                      "delete", d.err, c.id, << >>)}
       /\ inflight' = inflight \ {c}
  /\ UNCHANGED << hostVars, conf, quota, ledger, ticks, running, nbatch, nload, nsignal,
                  batches, done >>

\* plugin.Open, Lookup("NewTUI") and the type assertion depend on the file
\* alone: the published file of a plugin loads every time, any other file
\* fails every time, and a missing or damaged file cannot be opened.
LoadOutcomes(c, sto) ==
  IF sto[c.name] = "full" /\ c.name \in Plugins THEN {"ok"}
  ELSE IF sto[c.name] = "full" THEN {"open_err", "lookup_err", "shape_err"}
  ELSE {"open_err"}

\* loadPlugin: the message carries the constructed guest or an error.
loadPlugin(c, outcome) ==
  Msg("pluginLoaded", "", c.name, "", outcome # "ok", c.id, << >>)

RunLoadPlugin ==
  /\ Alive
  /\ \E c \in inflight :
       /\ c.kind = "loadPlugin"
       /\ \E outcome \in LoadOutcomes(c, storage) :
            msgs' = msgs \cup {loadPlugin(c, outcome)}
       /\ inflight' = inflight \ {c}
  /\ UNCHANGED << hostVars, conf, quota, storage, ledger, ticks, running, nbatch, nload,
                  nsignal, batches, done >>

\* The runtime's handling of the command returned by Update.  tea.Batch runs
\* every command of a batch concurrently; the closure that returns
\* allOperationsCompleteMsg has no other effect, so its event is pending at
\* once.
Dispatch(cmd, m, rest, tk) ==
  /\ ticks' = IF cmd.kind \in {"tickCmd", "tick3s"} THEN tk + 1 ELSE tk
  /\ IF cmd.kind = "processSelectedFiles"
       THEN /\ nbatch < quota.batches
            /\ nbatch' = nbatch + 1
            /\ inflight' = inflight \cup processSelectedFiles(m, nbatch + 1)
            /\ msgs' = rest \cup {Msg("allOperationsComplete", "", "", "",
                                      FALSE, << nbatch + 1 >>, << >>)}
            /\ UNCHANGED << nload, nsignal >>
     ELSE IF cmd.kind = "loadPlugin"
       THEN /\ nload < quota.loads
            /\ nload' = nload + 1
            /\ inflight' = inflight \cup
                 {[kind |-> "loadPlugin", name |-> cmd.id, type |-> "",
                   id |-> << nload + 1 >>]}
            /\ msgs' = rest
            /\ UNCHANGED << nbatch, nsignal >>
     ELSE IF cmd.kind = "emit"
       THEN /\ nsignal < MaxSignals
            /\ nsignal' = nsignal + 1
            /\ msgs' = rest \cup {Msg("string", "", cmd.id, "PLUGIN_QUIT:",
                                      FALSE, << nsignal + 1 >>, << >>)}
            /\ UNCHANGED << nbatch, nload, inflight >>
     ELSE /\ msgs' = rest
          /\ UNCHANGED << nbatch, nload, nsignal, inflight >>

\* The process ends (tea.Quit, or a runtime panic): its model, its pending
\* events and its running commands are gone; the files stay.
Terminate(how, led) ==
  /\ running' = how
  /\ Install(initialModel)
  /\ ledger' = led
  /\ inflight' = {} /\ msgs' = {} /\ ticks' = 0
  /\ nbatch' = 0 /\ nload' = 0 /\ nsignal' = 0
  /\ batches' = << >> /\ done' = {}

\* What Update may return on msg, over the commands of the guest it calls.
Outcomes(m, msg, led, sto) ==
  IF Update(m, msg, NilCmd, led, sto).guest = "none"
    THEN {Update(m, msg, NilCmd, led, sto)}
  ELSE {Update(m, msg, g, led, sto) : g \in GuestCmds}

\* One step of the update loop on event msg; rest and tk are the events and
\* the ticks still waiting afterwards.
Step(msg, rest, tk) ==
  /\ Alive
  /\ \E r \in Outcomes(Model, msg, ledger, storage) :
       IF r.cmd.kind = "Quit" THEN Terminate("quit", r.led)
       ELSE IF r.cmd.kind = "panic" THEN Terminate("panic", r.led)
       ELSE /\ r.m.logs.warnings <= MaxWarnings
            /\ Install(r.m)
            /\ ledger' = r.led
            /\ Dispatch(r.cmd, r.m, rest, tk)
            /\ batches' = IF r.cmd.kind = "processSelectedFiles"
                            THEN Append(batches, [pre |-> r.m.localFiles,
                                                  keys |-> r.m.selected])
                          ELSE batches
            /\ done' = IF msg.type = "operationComplete"
                         THEN done \cup {msg} ELSE done
            /\ UNCHANGED running
  /\ UNCHANGED << conf, quota, storage >>

\* A key press of the operator.
UpdateKey == \E k \in Keys : Step(KeyMsg(k), msgs, ticks)

UpdateTick == ticks > 0 /\ Step(TickMsg, msgs, ticks - 1)

Deliver(type) == \E msg \in msgs : msg.type = type /\ Step(msg, msgs \ {msg}, ticks)

UpdateFilesLoaded == Deliver("filesLoaded")

UpdateOperationComplete == Deliver("operationComplete")

UpdateAllOperationsComplete == Deliver("allOperationsComplete")

UpdatePluginLoaded == Deliver("pluginLoaded")

UpdateString == Deliver("string")

Next ==
  \/ RunFetchFiles
  \/ RunDownload
  \/ RunDelete
  \/ RunLoadPlugin
  \/ UpdateKey
  \/ UpdateTick
  \/ UpdateFilesLoaded
  \/ UpdateOperationComplete
  \/ UpdateAllOperationsComplete
  \/ UpdatePluginLoaded
  \/ UpdateString

\* One entry in the catalog; one batch and plugins.
Init == InitWith(OneEntry, [batches |-> MaxBatches, loads |-> MaxLoads])

Spec == Init /\ [][Next]_vars

\* The update loop without plugins.
NextBatch ==
  \/ RunFetchFiles
  \/ RunDownload
  \/ RunDelete
  \/ UpdateKey
  \/ UpdateTick
  \/ UpdateFilesLoaded
  \/ UpdateOperationComplete
  \/ UpdateAllOperationsComplete

\* Two entries in the catalog; one batch, no plugin is run.
InitBatch == InitWith(OneSource, [batches |-> MaxBatches, loads |-> 0])

SpecBatch == InitBatch /\ [][NextBatch]_vars

\* Two repositories listing the same entry name; one batch, no plugin.
InitShared == InitWith(SharedName, [batches |-> MaxBatches, loads |-> 0])

SpecShared == InitShared /\ [][NextBatch]_vars

\* One entry in the catalog; several batches, no plugin is run.
InitOverlap == InitWith(OneEntry, [batches |-> MaxOverlap, loads |-> 0])

SpecOverlap == InitOverlap /\ [][NextBatch]_vars

\* The ledger files an installation and earlier runs leave behind.
Ledgers == {InstalledLedger, AliasedLedger}

\* One entry in the catalog and several batches, started on each ledger.
InitLedger ==
  InitFrom(OneEntry, [batches |-> MaxOverlap, loads |-> 0], Ledgers)

SpecLedger == InitLedger /\ [][NextBatch]_vars

\* One stored plugin whose alias an earlier run appended; one batch and
\* one plugin run.
InitAliased ==
  InitFrom(OneEntry, [batches |-> MaxBatches, loads |-> MaxLoads],
           {AliasedLedger})

SpecAliased == InitAliased /\ [][Next]_vars

\* The program run without an installation: no ledger file.
InitUninstalled ==
  InitFrom(OneEntry, [batches |-> MaxBatches, loads |-> MaxLoads],
           {MissingLedger})

SpecUninstalled == InitUninstalled /\ [][Next]_vars

\* The update loop without batches.
NextLoads ==
  \/ RunFetchFiles
  \/ RunLoadPlugin
  \/ UpdateKey
  \/ UpdateTick
  \/ UpdateFilesLoaded
  \/ UpdatePluginLoaded
  \/ UpdateString

\* Two entries in the catalog, a plugin and another file; several plugin
\* loads, no batch is committed.
InitLoads == InitWith(OneSource, [batches |-> 0, loads |-> MaxReloads])

SpecLoads == InitLoads /\ [][NextLoads]_vars

\* The update loop of the catalog alone: no batch, no plugin.
NextCatalog ==
  \/ RunFetchFiles
  \/ UpdateKey
  \/ UpdateTick
  \/ UpdateFilesLoaded

\* Two repositories in the catalog; no batch is committed, no plugin is run.
InitCatalog == InitWith(TwoSources, [batches |-> 0, loads |-> 0])

SpecCatalog == InitCatalog /\ [][NextCatalog]_vars

\* The terminal reports a window size.
UpdateWindowSize ==
  \E w \in Widths : \E h \in Heights : Step(WindowSizeMsg(w, h), msgs, ticks)

\* The update loop of the catalog in a window that is resized.
NextView ==
  \/ RunFetchFiles
  \/ UpdateKey
  \/ UpdateTick
  \/ UpdateFilesLoaded
  \/ UpdateWindowSize

\* One repository listing a short and a long entry name; no batch is
\* committed, no plugin is run.
InitView == InitWith(LongName, [batches |-> 0, loads |-> 0])

SpecView == InitView /\ [][NextView]_vars

\* The runtime calls Update with every message a command has returned: the
\* terminal event, returned by a closure that does nothing else, is
\* delivered.
SpecFair == Spec /\ WF_vars(UpdateAllOperationsComplete)

TypeOK ==
  /\ loading \in BOOLEAN /\ processing \in BOOLEAN
  /\ activePanel \in 0..2
  /\ localFiles \subseteq EntryNames(conf)
  /\ running \in {"running", "quit", "panic"}

\* ------------------------------------------------------------------ claims
OpKinds == {"download", "delete"}

\* Commands of batch b still running, and events of batch b still waiting.
RunningOf(b) == {c \in inflight : c.kind \in OpKinds /\ c.id[1] = b}

EventsOf(b) ==
  {x \in msgs : x.type \in {"operationComplete", "allOperationsComplete"}
                /\ x.id[1] = b}

Completions == {x \in msgs : x.type = "operationComplete"}

\* Local Inventory at the commit of batch b, changed by the successes among
\* the completion events dn.
ExpectedInventory(b, dn) ==
  LET ok == {d \in dn : d.id[1] = b /\ ~d.err} IN
  (batches[b].pre \cup {d.name : d \in {e \in ok : e.op = "download"}})
     \ {d.name : d \in {e \in ok : e.op = "delete"}}

\* The catalog entries with their Selection Set keys.
KeyEntries ==
  UNION {{[key |-> FormatKey(r, f), name |-> repos[r].files[f].name] :
            f \in 1..Len(repos[r].files)} : r \in 1..Len(repos)}

QuitSignal(id) == Msg("string", "", id, "PLUGIN_QUIT:", FALSE, << >>, << >>)

\* C1: when Update processes the last outstanding event of a batch (terminal
\* event and all completion events), the Selection Set is empty, processing
\* is false and Local Inventory is its value at commit changed exactly by the
\* successes reported for the batch.  The claim is taken where the operator
\* has not selected or committed again since the terminal event.
C1_BatchSettled ==
  \A b \in 1..Len(batches) : \A x \in EventsOf(b) :
    (/\ RunningOf(b) = {} /\ EventsOf(b) = {x}
     /\ x.type = "operationComplete" => (selected = {} /\ ~processing)) =>
      \A r \in Outcomes(Model, x, ledger, storage) :
        /\ r.m.selected = {}
        /\ ~r.m.processing
        /\ r.m.localFiles =
             ExpectedInventory(b, IF x.type = "operationComplete"
                                    THEN done \cup {x} ELSE done)

\* C2: with no command running and no event waiting, Local Inventory holds
\* exactly the catalog names that have a file in the plugin directory.
C2_InventoryMatchesStorage ==
  (Alive /\ inflight = {} /\ msgs = {} /\ ticks = 0) =>
    \A n \in CatalogNames(repos) : (n \in localFiles) <=> Stat(storage, n)

\* C3: the fetch/remove actions outstanding at any time belong to one batch,
\* and no key starts a batch while processing is true.
C3_OneBatchOutstanding ==
  /\ Cardinality({c.id[1] : c \in {d \in inflight : d.kind \in OpKinds}}
                 \cup {x.id[1] : x \in Completions}) <= 1
  /\ processing =>
       \A k \in Keys : \A r \in Outcomes(Model, KeyMsg(k), ledger, storage) :
         r.cmd.kind # "processSelectedFiles"

\* C4: the Update step on a successful remove of the file of the active
\* session leaves no guest, no running plugin name, and focus on panel 0.
C4_RemoveEndsSession ==
  \A x \in Completions :
    (x.op = "delete" /\ ~x.err /\ ~embeddedTUI.nil /\ runningTUI = x.name) =>
      \A r \in Outcomes(Model, x, ledger, storage) :
        r.m.embeddedTUI = NilTUI /\ r.m.runningTUI = "" /\ r.m.activePanel = 0

\* C5: with a guest installed and focused, a quit signal is accepted exactly
\* when the session identifier is unset or equal to the signal's; accepted,
\* it clears guest, plugin name and identifier and focuses panel 0; refused,
\* it leaves the session as it is.
C5_QuitSignal ==
  GuestHasFocus(Model) =>
    \A id \in QuitIds \cup {runningTUI} :
      \A r \in Outcomes(Model, QuitSignal(id), ledger, storage) :
        IF embeddedPluginID = "" \/ embeddedPluginID = id
          THEN /\ r.m.embeddedTUI = NilTUI /\ r.m.runningTUI = ""
               /\ r.m.embeddedPluginID = "" /\ r.m.activePanel = 0
               /\ r.cmd = NilCmd
        ELSE /\ r.m.embeddedTUI = embeddedTUI /\ r.m.runningTUI = runningTUI
             /\ r.m.embeddedPluginID = embeddedPluginID
             /\ r.m.activePanel = activePanel

\* A quit signal has just ended a session.
C5_Witness ==
  /\ Alive /\ logs.last = "plugin_stopped" /\ nsignal > 0
  /\ embeddedTUI = NilTUI /\ runningTUI = "" /\ activePanel = 0

\* C6: in every state of the running program, Update returns tea.Quit on
\* 'q' and on ctrl+c.
C6_QuitAlways ==
  Alive =>
    \A k \in {"q", "ctrl+c"} :
      \A r \in Outcomes(Model, KeyMsg(k), ledger, storage) :
        r.cmd.kind = "Quit"

\* C7: Update returns tea.Quit on no event other than the quit keys.
C7_QuitOnlyOnQuitKey ==
  Alive =>
    \A x \in {KeyMsg(k) : k \in Keys \ {"q", "ctrl+c"}} \cup msgs
                \cup (IF ticks > 0 THEN {TickMsg} ELSE {}) :
      \A r \in Outcomes(Model, x, ledger, storage) : r.cmd.kind # "Quit"

\* C8: Update applies every completion event: a success updates Local
\* Inventory for its name, a failure sets the status and appends a log entry.
C8_CompletionApplied ==
  \A x \in Completions : \A r \in Outcomes(Model, x, ledger, storage) :
    IF x.err
      THEN r.m.statusMsg = "Erreur" /\ r.m.logs.n = logs.n + 1
           /\ r.m.logs.last = "op_error"
    ELSE (x.name \in r.m.localFiles) <=> (x.op = "download")

\* C9: a commit builds one command per selected key and none for any other
\* entry, a fetch when the name is absent from Local Inventory and a remove
\* otherwise; one terminal event waits exactly while processing; and every
\* command of a batch is running, or has one completion event waiting, or
\* has had one processed, each carrying the entry's name and the kind.
C9_OneActionPerKey ==
  /\ \A r \in Outcomes(Model, KeyMsg("enter"), ledger, storage) :
       r.cmd.kind = "processSelectedFiles" =>
         LET ops == processSelectedFiles(r.m, nbatch + 1) IN
         /\ Cardinality(ops) = Cardinality(selected)
         /\ \A e \in KeyEntries :
              IF e.key \in selected
                THEN \E c \in ops :
                       /\ c.id = << nbatch + 1, e.key >>
                       /\ c.name = e.name
                       /\ c.kind = IF e.name \in localFiles THEN "delete"
                                   ELSE "download"
              ELSE \A c \in ops : c.id # << nbatch + 1, e.key >>
  /\ Cardinality({x \in msgs : x.type = "allOperationsComplete"})
       = IF processing THEN 1 ELSE 0
  /\ \A b \in 1..Len(batches) :
       /\ \A e \in KeyEntries :
            LET kind == IF e.name \in batches[b].pre THEN "delete"
                        ELSE "download"
                id == << b, e.key >>
                run == {c \in inflight : c.id = id}
                evs == {x \in msgs \cup done : x.id = id}
            IN IF e.key \in batches[b].keys
                 THEN /\ Cardinality(run) + Cardinality(evs) = 1
                      /\ \A c \in run : c.name = e.name /\ c.kind = kind
                      /\ \A x \in evs : /\ x.type = "operationComplete"
                                        /\ x.name = e.name /\ x.op = kind
               ELSE run = {} /\ evs = {}
       /\ Cardinality(RunningOf(b))
            + Cardinality({x \in Completions \cup done : x.id[1] = b})
            = Cardinality(batches[b].keys)

\* A batch over one of two entries: its fetch has succeeded and been
\* processed, and the other entry got no command.
C9_Witness ==
  /\ Len(batches) = 1 /\ Cardinality(batches[1].keys) = 1
  /\ Cardinality(KeyEntries) = 2
  /\ \E d \in done : d.op = "download" /\ ~d.err /\ d.name \in localFiles
  /\ inflight = {} /\ ~processing

\* C10: the Update step on a completion event carrying an error changes
\* neither Local Inventory, Selection Set, processing nor the session; it
\* sets the status message and appends one log entry.
C10_FailureRecorded ==
  \A x \in Completions : x.err =>
    \A r \in Outcomes(Model, x, ledger, storage) :
      /\ r.m.localFiles = localFiles /\ r.m.selected = selected
      /\ r.m.processing = processing
      /\ r.m.embeddedTUI = embeddedTUI /\ r.m.runningTUI = runningTUI
      /\ r.m.activePanel = activePanel
      /\ r.m.statusMsg = "Erreur"
      /\ r.m.logs.n = logs.n + 1 /\ r.m.logs.last = "op_error"

\* The events Update can be called with in the current state.
QuitKeys == {"q", "ctrl+c"}

Inbound ==
  {KeyMsg(k) : k \in Keys} \cup msgs \cup (IF ticks > 0 THEN {TickMsg} ELSE {})

Collapsed(rs) == [i \in 1..Len(rs) |-> rs[i].collapsed]

\* C11: while processing is true, no key other than the quit keys changes
\* the cursor, the Selection Set, a collapsed flag, the focused panel or the
\* running plugin name, nor returns a batch or a plugin load; and processing
\* stays true under every event except the terminal event.
C11_ProcessingFreezesKeys ==
  processing =>
    /\ \A k \in Keys \ QuitKeys :
         \A r \in Outcomes(Model, KeyMsg(k), ledger, storage) :
           /\ r.m.cursor = cursor /\ r.m.selected = selected
           /\ Collapsed(r.m.repos) = Collapsed(repos)
           /\ r.m.activePanel = activePanel /\ r.m.runningTUI = runningTUI
           /\ r.cmd.kind \notin {"processSelectedFiles", "loadPlugin"}
    /\ \A x \in {y \in Inbound : y.type # "allOperationsComplete"} :
         \A r \in Outcomes(Model, x, ledger, storage) : r.m.processing

\* A batch is being processed with the catalog panel focused and a
\* non-empty Selection Set.
C11_Witness ==
  /\ Alive /\ processing /\ ~loading /\ activePanel = 0
  /\ selected # {} /\ Len(displayLines) > 0

\* The catalog keys act: the cursor moves, space toggles the entry under
\* the cursor, enter on an entry with a non-empty Selection Set commits.
Operable ==
  (Alive /\ ~processing /\ ~loading /\ activePanel = 0 /\ InRange(Model)) =>
    /\ \A r \in Outcomes(Model, KeyMsg("down"), ledger, storage) :
         r.m.cursor = IF cursor < Len(displayLines) - 1 THEN cursor + 1
                      ELSE cursor
    /\ \A r \in Outcomes(Model, KeyMsg("up"), ledger, storage) :
         r.m.cursor = IF cursor > 0 THEN cursor - 1 ELSE cursor
    /\ ~LineAt(Model).isHeader =>
         LET key == FormatKey(LineAt(Model).repoIdx, LineAt(Model).fileIdx) IN
         /\ \A r \in Outcomes(Model, KeyMsg(" "), ledger, storage) :
              (key \in r.m.selected) <=> (key \notin selected)
         /\ selected # {} =>
              \A r \in Outcomes(Model, KeyMsg("enter"), ledger, storage) :
                r.cmd.kind = "processSelectedFiles" /\ r.m.processing

\* C12: with the terminal event delivered fairly, every state in which
\* processing is true is followed by one in which it is false and the
\* Selection Set is empty (or the program has been quit), whether or not the
\* actions of the batch complete; and whenever processing is false the
\* catalog keys act again.
C12_ProcessingEnds ==
  /\ (Alive /\ processing) ~> (~Alive \/ (~processing /\ selected = {}))
  /\ []Operable

\* The terminal event has been processed while an action of the batch is
\* still running.
C12_Witness ==
  /\ Alive /\ nbatch > 0 /\ ~processing /\ selected = {}
  /\ \E c \in inflight : c.kind \in OpKinds

\* The catalog panel handles the keys and the cursor is on a line.
CatalogReady ==
  Alive /\ ~loading /\ ~processing /\ activePanel = 0 /\ InRange(Model)

\* C13: 'e' on an entry whose name is not in Local Inventory only appends
\* one warning log entry (no field of the model changes otherwise, the
\* ledger is untouched and no plugin load is returned); 'e' on a header
\* line changes nothing.
C13_ExecuteAbsent ==
  CatalogReady =>
    \A r \in Outcomes(Model, KeyMsg("e"), ledger, storage) :
      IF LineAt(Model).isHeader
        THEN r.m = Model /\ r.led = ledger /\ r.cmd.kind # "loadPlugin"
      ELSE FileAt(Model, LineAt(Model)).name \notin localFiles =>
             /\ r.m = [Model EXCEPT !.logs = [n |-> @.n + 1,
                                              last |-> "not_downloaded",
                                              warnings |-> @.warnings + 1]]
             /\ r.led = ledger /\ r.cmd.kind # "loadPlugin"

\* The warning has just been logged: no plugin was requested.
C13_Witness ==
  /\ CatalogReady /\ logs.last = "not_downloaded" /\ nload = 0
  /\ runningTUI = "" /\ embeddedTUI = NilTUI
  /\ ~LineAt(Model).isHeader
  /\ FileAt(Model, LineAt(Model)).name \notin localFiles

\* Results of plugin loads waiting to be processed.
LoadResults == {x \in msgs : x.type = "pluginLoaded"}

\* C14: 'e' on an entry in Local Inventory focuses panel 2 and returns one
\* plugin load for that entry; and the Update step on a failed load result
\* leaves focus on panel 0, no running plugin name, one more log entry (the
\* error), and returns no quit command.
C14_LoadFailureReverts ==
  /\ (CatalogReady /\ ~LineAt(Model).isHeader
        /\ FileAt(Model, LineAt(Model)).name \in localFiles) =>
       \A r \in Outcomes(Model, KeyMsg("e"), ledger, storage) :
         /\ r.m.activePanel = 2
         /\ r.m.runningTUI = FileAt(Model, LineAt(Model)).name
         /\ r.cmd = Cmd("loadPlugin", FileAt(Model, LineAt(Model)).name)
  /\ \A x \in LoadResults : x.err =>
       \A r \in Outcomes(Model, x, ledger, storage) :
         /\ r.m.activePanel = 0 /\ r.m.runningTUI = ""
         /\ r.m.logs.n = logs.n + 1 /\ r.m.logs.last = "plugin_error"
         /\ r.cmd.kind \notin {"Quit", "panic"}

\* C15: a guest is installed only by a successful load result and only
\* when no guest is installed (two load results are never both installed),
\* and an installed guest goes away only on an accepted quit signal or on
\* the successful removal of its file.
C15_OneSession ==
  \A x \in Inbound \cup {QuitSignal(id) : id \in QuitIds} :
    \A r \in Outcomes(Model, x, ledger, storage) :
      /\ (embeddedTUI.nil /\ ~r.m.embeddedTUI.nil) =>
           (x.type = "pluginLoaded" /\ ~x.err
            /\ r.m.embeddedTUI.plugin = x.name)
      /\ (~embeddedTUI.nil /\ x.type = "pluginLoaded") =>
           r.m.embeddedTUI = embeddedTUI
      /\ (~embeddedTUI.nil /\ r.m.embeddedTUI # embeddedTUI) =>
           \/ x.type = "string"
           \/ (x.type = "operationComplete" /\ x.op = "delete" /\ ~x.err
               /\ x.name = embeddedTUI.plugin)

\* C16: when not loading and not processing, tab moves focus to
\* (activePanel + 1) modulo 3 if a guest is installed and modulo 2 otherwise,
\* from whichever panel has focus; and panel 2 has focus only while a guest
\* is installed.
C16_PanelCycle ==
  /\ (Alive /\ ~loading /\ ~processing) =>
       \A r \in Outcomes(Model, KeyMsg("tab"), ledger, storage) :
         r.m.activePanel =
           (activePanel + 1) % (IF ~embeddedTUI.nil THEN 3 ELSE 2)
  /\ activePanel = 2 => ~embeddedTUI.nil

\* C17: with a guest installed and focused, Update calls the guest's Update
\* on every event; on an accepted quit signal it clears the session, logs
\* the stop and returns no command whatever the guest returned; on any other
\* event it returns the model as it was (the guest aside) and exactly the
\* guest's command, and leaves the ledger alone.
C17_GuestFirst ==
  GuestHasFocus(Model) =>
    \A x \in Inbound \cup {QuitSignal(id) : id \in QuitIds} :
      \A g \in GuestCmds :
        LET r == Update(Model, x, g, ledger, storage) IN
        /\ r.guest = "Update" /\ r.led = ledger
        /\ IF x.type = "string" /\ x.op = "PLUGIN_QUIT:"
              /\ (embeddedPluginID = "" \/ embeddedPluginID = x.name)
             THEN /\ r.m = [addLog(Model, "plugin_stopped") EXCEPT
                              !.embeddedTUI = NilTUI, !.embeddedPluginID = "",
                              !.runningTUI = "", !.activePanel = 0]
                  /\ r.cmd = NilCmd
           ELSE r.m = Model /\ r.cmd = g

\* A guest has focus while a completion event or a tick waits for Update.
C17_Witness ==
  /\ Alive /\ GuestHasFocus(Model)
  /\ (ticks > 0 \/ \E x \in msgs : x.type = "operationComplete")

\* C18: enter on a repository header, twice in succession, returns the
\* display projection, element by element, and the collapsed flags to what
\* they were; the first enter toggles the flag of that repository alone.
C18_ToggleTwice ==
  (CatalogReady /\ LineAt(Model).isHeader) =>
    \A r1 \in Outcomes(Model, KeyMsg("enter"), ledger, storage) :
      /\ Collapsed(r1.m.repos) =
           [Collapsed(repos) EXCEPT ![LineAt(Model).repoIdx] = ~@]
      /\ r1.m.displayLines # displayLines
      /\ \A r2 \in Outcomes(r1.m, KeyMsg("enter"), r1.led, storage) :
           /\ r2.m.displayLines = displayLines
           /\ Len(r2.m.displayLines) = Len(displayLines)
           /\ Collapsed(r2.m.repos) = Collapsed(repos)
           /\ r2.m.repos = repos

\* The cursor is on the header of the second of two repositories, which is
\* collapsed: one more enter expands it again.
C18_Witness ==
  /\ CatalogReady /\ Len(repos) = 2 /\ LineAt(Model).isHeader
  /\ LineAt(Model).repoIdx = 2 /\ repos[2].collapsed /\ ~repos[1].collapsed

\* The lines of the projection.
Lines == {displayLines[i] : i \in 1..Len(displayLines)}

\* C19: a file line is in the display projection only if its repository is
\* not collapsed, and the header line of every repository is in it whether
\* the repository is collapsed or not.
C19_FileLinesOnlyExpanded ==
  /\ \A l \in Lines : ~l.isHeader => ~repos[l.repoIdx].collapsed
  /\ \A i \in 1..Len(repos) :
       [isHeader |-> TRUE, repoIdx |-> i, fileIdx |-> 0] \in Lines

\* C19 as stated: every line of the projection, header or file line,
\* belongs to a repository that is not collapsed.
C19_OnlyExpandedLines ==
  \A l \in Lines : ~repos[l.repoIdx].collapsed

\* A collapsed repository with entries, beside an expanded one.
C19_Witness ==
  /\ Alive /\ ~loading
  /\ \E i, j \in 1..Len(repos) :
       /\ repos[i].collapsed /\ Len(repos[i].files) > 0
       /\ ~repos[j].collapsed
       /\ \E l \in Lines : ~l.isHeader /\ l.repoIdx = j

\* Place of a line in repository order, then entry order (the header first).
Before(a, b) ==
  a.repoIdx < b.repoIdx \/ (a.repoIdx = b.repoIdx /\ a.fileIdx < b.fileIdx)

\* C20: the display projection is the one of the current repositories and
\* collapsed flags: its lines are in repository order then entry order,
\* each header followed by the file lines of its repository; it holds
\* every header and exactly the file lines of the expanded repositories,
\* each referring to an existing entry.
C20_ProjectionCurrent ==
  /\ \A i, j \in 1..Len(displayLines) :
       i < j => Before(displayLines[i], displayLines[j])
  /\ \A l \in Lines :
       /\ l.repoIdx \in 1..Len(repos)
       /\ l.isHeader <=> l.fileIdx = 0
       /\ ~l.isHeader => /\ l.fileIdx \in 1..Len(repos[l.repoIdx].files)
                         /\ ~repos[l.repoIdx].collapsed
  /\ \A r \in 1..Len(repos) :
       /\ \E l \in Lines : l.isHeader /\ l.repoIdx = r
       /\ ~repos[r].collapsed =>
            \A f \in 1..Len(repos[r].files) :
              \E l \in Lines : ~l.isHeader /\ l.repoIdx = r /\ l.fileIdx = f

\* After a successful load of two repositories, the first is collapsed and
\* the second expanded: two headers and one file line.
C20_Witness ==
  /\ Alive /\ ~loading /\ err = "" /\ Len(repos) = 2
  /\ repos[1].collapsed /\ ~repos[2].collapsed /\ Len(displayLines) = 3

\* C21: whenever the display projection is not empty the cursor is an
\* index of it, and no key makes Update read displayLines[cursor] out of
\* range or move the cursor out of the projection.
C21_CursorInRange ==
  /\ Len(displayLines) > 0 => (0 <= cursor /\ cursor < Len(displayLines))
  /\ \A k \in Keys : \A r \in Outcomes(Model, KeyMsg(k), ledger, storage) :
       /\ r.cmd.kind # "panic"
       /\ Len(r.m.displayLines) > 0 =>
            (0 <= r.m.cursor /\ r.m.cursor < Len(r.m.displayLines))

\* The cursor is on the last line of a projection shortened by a collapse.
C21_Witness ==
  /\ Alive /\ ~loading /\ Len(repos) = 2 /\ repos[2].collapsed
  /\ Len(displayLines) > 0 /\ cursor = Len(displayLines) - 1

\* The key reads as "<repository index>:<entry index>" and both indices
\* refer to an entry of rs.
ValidKey(key, rs) ==
  /\ Len(key) = 3 /\ key[2] = ":"
  /\ key[1] = Dec(Scan(key[1])) /\ key[3] = Dec(Scan(key[3]))
  /\ Scan(key[1]) < Len(rs)
  /\ Scan(key[3]) < Len(rs[Scan(key[1]) + 1].files)

\* C22: every key of the Selection Set names an existing entry of the
\* current catalog; the Update step on the terminal event empties the
\* Selection Set; and 'c' on the catalog panel empties it and changes
\* nothing else.
C22_SelectionValid ==
  /\ \A key \in selected : ValidKey(key, repos)
  /\ \A x \in {y \in msgs : y.type = "allOperationsComplete"} :
       \A r \in Outcomes(Model, x, ledger, storage) : r.m.selected = {}
  /\ (Alive /\ ~loading /\ ~processing /\ activePanel = 0
        /\ Len(displayLines) > 0) =>
       \A r \in Outcomes(Model, KeyMsg("c"), ledger, storage) :
         /\ r.m = [Model EXCEPT !.selected = {}]
         /\ r.led = ledger
         /\ r.cmd.kind \notin {"processSelectedFiles", "loadPlugin"}

\* Two entries are selected and committed; the terminal event waits.
C22_Witness ==
  /\ Alive /\ processing /\ Cardinality(selected) = 2
  /\ \E x \in msgs : x.type = "allOperationsComplete"

\* C23: with the catalog panel in focus and no batch in progress, enter on
\* a header line flips the collapsed flag of that repository and of no
\* other, leaves the Selection Set alone and starts no batch; space on a
\* non-header line toggles exactly that entry's key, a second space restores
\* the set, and the collapsed flags stay; space on a header changes nothing.
C23_HeaderAndEntryKeys ==
  CatalogReady =>
    LET line == LineAt(Model)
        key == FormatKey(line.repoIdx, line.fileIdx)
    IN IF line.isHeader
         THEN /\ \A r \in Outcomes(Model, KeyMsg("enter"), ledger, storage) :
                   /\ Collapsed(r.m.repos) =
                        [Collapsed(repos) EXCEPT ![line.repoIdx] = ~@]
                   /\ r.m.selected = selected
                   /\ ~r.m.processing
                   /\ r.cmd.kind # "processSelectedFiles"
              /\ \A r \in Outcomes(Model, KeyMsg(" "), ledger, storage) :
                   r.m = Model /\ r.led = ledger
         ELSE \A r \in Outcomes(Model, KeyMsg(" "), ledger, storage) :
                /\ r.m.selected = IF key \in selected THEN selected \ {key}
                                  ELSE selected \cup {key}
                /\ Collapsed(r.m.repos) = Collapsed(repos)
                /\ r.m.displayLines = displayLines
                /\ ~r.m.processing
                /\ \A r2 \in Outcomes(r.m, KeyMsg(" "), r.led, storage) :
                     r2.m.selected = selected

\* The entry under the cursor was selected by space while another
\* repository was collapsed by enter on its header.
C23_Witness ==
  /\ CatalogReady /\ ~LineAt(Model).isHeader
  /\ FormatKey(LineAt(Model).repoIdx, LineAt(Model).fileIdx) \in selected
  /\ \E i \in 1..Len(repos) : repos[i].collapsed

\* The strictly increasing enumeration of a set of source indices.
RECURSIVE Ascending(_)
Ascending(S) ==
  IF S = {} THEN << >>
  ELSE LET least == CHOOSE i \in S : \A j \in S : i <= j
       IN << least >> \o Ascending(S \ {least})

\* C24: whichever non-empty subset of the configured sources returns a
\* listing, the load event carries no error and exactly the repositories of
\* those sources, in configuration order, each expanded; and Update records
\* it as a load (catalog set, no error, loading over, success logged).
C24_PartialLoad ==
  \A ok \in (SUBSET (1..Len(conf))) \ {{}} :
    LET msg == fetchFiles(conf, ok)
        idx == Ascending(ok)
    IN /\ ~msg.err
       /\ Len(msg.repos) = Cardinality(ok)
       /\ \A j \in 1..Len(msg.repos) :
            msg.repos[j] = [name |-> conf[idx[j]].name,
                            files |-> conf[idx[j]].files,
                            collapsed |-> FALSE]
       /\ (Alive /\ loading) =>
            \A r \in Outcomes(Model, msg, ledger, storage) :
              /\ r.m.repos = msg.repos
              /\ r.m.err = ""
              /\ ~r.m.loading
              /\ r.m.logs.last = "repos_loaded"
              /\ r.m.displayLines # << >>

\* The first source failed and the second one populates the catalog.
C24_Witness ==
  /\ Alive /\ ~loading /\ err = ""
  /\ Len(conf) = 2 /\ Len(repos) = 1 /\ repos[1].name = conf[2].name
  /\ displayLines # << >>

\* C25: when no configured source returns a listing the load event carries
\* an error; Update on it ends the loading state, records and logs the
\* error and leaves catalog and projection empty; and in the error state
\* every key is handled without an out-of-range read and without a change
\* of cursor or Selection Set.
C25_NoSourceLoads ==
  /\ fetchFiles(conf, {}).err
  /\ (Alive /\ loading) =>
       \A r \in Outcomes(Model, fetchFiles(conf, {}), ledger, storage) :
         /\ ~r.m.loading
         /\ r.m.err # ""
         /\ r.m.logs.last = "load_error"
         /\ r.m.repos = << >> /\ r.m.displayLines = << >>
         /\ r.cmd.kind # "panic"
  /\ (Alive /\ ~loading /\ err # "") =>
       /\ displayLines = << >>
       /\ \A k \in Keys : \A r \in Outcomes(Model, KeyMsg(k), ledger, storage) :
            /\ r.cmd.kind # "panic"
            /\ r.m.cursor = cursor
            /\ r.m.selected = selected
            /\ r.m.displayLines = << >>
            /\ ~r.m.loading

\* The load has failed and the operator has moved on to another panel.
C25_Witness ==
  /\ Alive /\ ~loading /\ err = "load_error" /\ logs.n >= 1
  /\ activePanel = 1

\* The lines of the ledger that removeAliasFromPluginBashrc takes for the
\* alias of name.
AliasLines(led, name) ==
  LET lines == SplitNL(led.content)
  IN Cardinality({i \in 1..Len(lines) : HasPrefix(lines[i], name)})

\* Successful fetch completions waiting for Update.
Fetched ==
  {x \in msgs : x.type = "operationComplete" /\ x.op = "download" /\ ~x.err}

\* The successful remove completion of the entry of x.
RemoveOf(x) == Msg("operationComplete", "", x.name, "delete", FALSE, x.id, << >>)

C27_OneLinePerName ==
  /\ \A n \in EntryNames(conf) : AliasLines(ledger, n) <= 1
  /\ \A x \in {y \in Completions : ~y.err} :
       \A r \in Outcomes(Model, x, ledger, storage) :
         /\ \A n \in EntryNames(conf) : AliasLines(r.led, n) <= 1
         /\ x.op = "download" =>
              /\ AliasLines(r.led, x.name) = 1
              /\ r.m.logs.last = "alias_added"
              /\ AliasLines(ledger, x.name) = 1 => r.led = ledger
         /\ x.op = "delete" =>
              /\ AliasLines(r.led, x.name) = 0
              /\ r.m.logs.last = "alias_removed"
              /\ AliasLines(ledger, x.name) = 0 => r.led = ledger

\* C28: when the ledger file cannot be edited, the handling of a successful
\* fetch or remove completion still updates Local Inventory and, for the
\* remove of the running plugin, still ends its session; compared with the
\* same step on a ledger that can be edited, the only difference is that
\* the last log entry is the warning.
C28_LedgerFailureTolerated ==
  (~ledger.exists /\ ~GuestHasFocus(Model)) =>
    \A x \in {y \in Completions : ~y.err} :
      \A r \in Outcomes(Model, x, ledger, storage) :
        /\ r.m.localFiles = IF x.op = "download" THEN localFiles \cup {x.name}
                            ELSE localFiles \ {x.name}
        /\ (x.op = "delete" /\ runningTUI = x.name) =>
             (r.m.embeddedTUI = NilTUI /\ r.m.runningTUI = "")
        /\ r.m.logs.last = "alias_warning"
        /\ r.led = ledger
        /\ \E r0 \in Outcomes(Model, x, InstalledLedger, storage) :
             /\ r0.m.logs.last \in {"alias_added", "alias_removed"}
             /\ r.m = [r0.m EXCEPT !.logs.last = "alias_warning"]
             /\ r.cmd = r0.cmd

\* Without a ledger file, the remove of the running plugin has succeeded
\* and its completion waits while the catalog panel has the focus.
C28_Witness ==
  /\ Alive /\ ~ledger.exists /\ ~GuestHasFocus(Model)
  /\ ~embeddedTUI.nil
  /\ \E x \in Completions : ~x.err /\ x.op = "delete" /\ x.name = runningTUI

\* A permission mode with an execute bit (owner, group or other).
Executable(mode) == \E bit \in {1, 8, 64} : (mode \div bit) % 2 = 1

\* C29: whenever a fetch action reports success, a file is stored under the
\* entry's name and the mode it was given has an execute bit; whenever a
\* remove action reports success, no file is stored under the name.
C29_FetchedExecutable ==
  /\ \A c \in {k \in inflight : k.kind = "download"} :
       \A outcome \in DownloadOutcomes(c) :
         LET d == downloadFile(c, outcome, storage) IN
         ~d.err => /\ d.sto[c.name] # "none"
                   /\ d.chmod # << >>
                   /\ Executable(d.chmod[1])
  /\ \A c \in {k \in inflight : k.kind = "delete"} :
       \A refused \in BOOLEAN :
         LET d == deleteFile(c, refused, storage) IN
         ~d.err => d.sto[c.name] = "none"

\* C30: while processing is true the catalog panel has the focus, so a
\* terminal event or a completion event handled in such a state goes
\* through the host's message switch: Update returns the model the switch
\* computes for it.
C30_ProcessingOnCatalog ==
  processing =>
    /\ activePanel = 0
    /\ ~GuestHasFocus(Model)
    /\ \A x \in {y \in msgs : y.type \in {"allOperationsComplete",
                                            "operationComplete"}} :
         \A r \in Outcomes(Model, x, ledger, storage) :
           /\ r.m = HostSwitch(Model, x, NilCmd, ledger, storage).m
           /\ r.led = HostSwitch(Model, x, NilCmd, ledger, storage).led
           /\ x.type = "allOperationsComplete" =>
                (~r.m.processing /\ r.m.selected = {})
           /\ (x.type = "operationComplete" /\ ~x.err) =>
                (x.name \in r.m.localFiles <=> x.op = "download")

\* A batch is in progress while a guest is installed, and one of its
\* events waits for Update.
C30_Witness ==
  /\ Alive /\ processing /\ ~embeddedTUI.nil /\ activePanel = 0
  /\ \E x \in msgs : x.type = "operationComplete"

\* C31: whenever a guest is installed, runningTUI is non-empty and is the
\* name of the plugin file the guest was constructed from; and every
\* plugin-load result is handled by the host's message switch.
C31_GuestNamed ==
  /\ ~embeddedTUI.nil =>
       (runningTUI # "" /\ runningTUI = embeddedTUI.plugin)
  /\ \A x \in LoadResults :
       \A r \in Outcomes(Model, x, ledger, storage) :
         r.m = HostSwitch(Model, x, NilCmd, ledger, storage).m

\* C32: the session identifier is the empty string in every reachable
\* state, so with a guest installed and focused every quit signal ends the
\* session, whatever identifier it carries.
C32_IdentifierUnset ==
  /\ embeddedPluginID = ""
  /\ GuestHasFocus(Model) =>
       \A id \in QuitIds \cup {runningTUI, embeddedTUI.plugin} :
         \A r \in Outcomes(Model, QuitSignal(id), ledger, storage) :
           /\ r.m.embeddedTUI = NilTUI /\ r.m.runningTUI = ""
           /\ r.m.embeddedPluginID = "" /\ r.m.activePanel = 0
           /\ r.m.logs.last = "plugin_stopped"

\* A session was ended by a quit signal after its plugin had been loaded.
C32_Witness ==
  /\ Alive /\ nload >= 1 /\ nsignal >= 1 /\ embeddedPluginID = ""
  /\ embeddedTUI.nil /\ logs.last = "plugin_stopped"

\* The steps in which the host's switch returns: quit, execute of a
\* downloaded entry, commit, terminal event, successful plugin load, and a
\* tick while loading or processing.
EarlyReturn(x) ==
  \/ x.type = "key" /\ x.key \in QuitKeys
  \/ /\ x.type = "key" /\ x.key = "e" /\ CatalogReady
     /\ ~LineAt(Model).isHeader
     /\ FileAt(Model, LineAt(Model)).name \in localFiles
  \/ /\ x.type = "key" /\ x.key = "enter" /\ CatalogReady
     /\ ~LineAt(Model).isHeader /\ selected # {}
  \/ x.type = "allOperationsComplete"
  \/ x.type = "pluginLoaded" /\ ~x.err
  \/ x.type = "tick" /\ (loading \/ processing)

Dispatched ==
  UNION {processSelectedFiles(r.m, nbatch + 1) :
           r \in {o \in Outcomes(Model, KeyMsg("enter"), ledger, storage) :
                    o.cmd.kind = "processSelectedFiles"}}

\* C34: a commit dispatches one action per selected entry; two actions
\* of a batch target the same file name exactly when two selected entries
\* carry that name, and then both are of the same kind.
C34_OneActionPerEntry ==
  /\ Dispatched # {} => Cardinality(Dispatched) = Cardinality(selected)
  /\ \A c1, c2 \in Dispatched :
       (c1 # c2 /\ c1.name = c2.name) =>
         (c1.id[2] # c2.id[2] /\ c1.kind = c2.kind)
  /\ Dispatched # {} =>
       \A n \in EntryNames(conf) :
         Cardinality({c \in Dispatched : c.name = n})
           = Cardinality({e \in KeyEntries : e.key \in selected /\ e.name = n})

\* C34 as stated: no two actions of one batch target the same file name.
C34_DistinctTargets ==
  /\ \A c1, c2 \in Dispatched : c1.name = c2.name => c1 = c2
  /\ \A c1, c2 \in {c \in inflight : c.kind \in OpKinds} :
       (c1.id[1] = c2.id[1] /\ c1.name = c2.name) => c1 = c2

\* Both repositories' entries "a" were selected and committed: two actions
\* on the same file are running.
C34_Witness ==
  /\ Alive /\ processing
  /\ Cardinality({c \in inflight : c.kind \in OpKinds /\ c.name = "a"}) = 2

\* C35: whenever a status message other than a progress message is shown
\* while the program is neither loading nor processing, a tick is pending
\* and the Update step on it resets the message to empty.
C35_StatusCleared ==
  (Alive /\ statusMsg # NoStatus /\ ~IsProgress(statusMsg)
     /\ ~loading /\ ~processing) =>
    /\ ticks > 0
    /\ \A r \in Outcomes(Model, TickMsg, ledger, storage) :
         r.m.statusMsg = NoStatus

\* C36: a key starts a commit only if it is enter on a non-header line of
\* the focused catalog; enter on a header leaves the Selection Set as it is
\* and starts nothing, even with entries selected; and a commit dispatches
\* an action for every selected entry, those of collapsed repositories
\* included.
C36_HiddenSelectionKept ==
  /\ Alive =>
       \A k \in Keys : \A r \in Outcomes(Model, KeyMsg(k), ledger, storage) :
         r.cmd.kind = "processSelectedFiles" =>
           (k = "enter" /\ CatalogReady /\ ~LineAt(Model).isHeader)
  /\ (CatalogReady /\ LineAt(Model).isHeader) =>
       \A r \in Outcomes(Model, KeyMsg("enter"), ledger, storage) :
         /\ r.m.selected = selected
         /\ ~r.m.processing
         /\ r.m.repos[LineAt(Model).repoIdx].collapsed
              = ~repos[LineAt(Model).repoIdx].collapsed
  /\ (CatalogReady /\ ~LineAt(Model).isHeader /\ selected # {}) =>
       \A r \in Outcomes(Model, KeyMsg("enter"), ledger, storage) :
         /\ r.cmd.kind = "processSelectedFiles"
         /\ \A e \in KeyEntries :
              e.key \in selected =>
                \E c \in processSelectedFiles(r.m, nbatch + 1) :
                  c.id[2] = e.key /\ c.name = e.name

\* An entry selected before its repository was collapsed has received its
\* action: the batch runs while the repository is still folded.
C36_Witness ==
  /\ Alive /\ processing
  /\ \E c \in inflight :
       /\ c.kind \in OpKinds
       /\ repos[Scan(c.id[2][1]) + 1].collapsed

\* C37: scrollOffset lies between 0 and max(0, number of log entries minus
\* the log window); only a scroll key pressed while the log panel has the
\* focus changes it, apart from an accepted tab, which resets it to 0.
C37_ScrollInRange ==
  /\ 0 <= scrollOffset
  /\ scrollOffset <= (IF logs.n > LogWindow THEN logs.n - LogWindow ELSE 0)
  /\ Alive =>
       \A x \in Inbound : \A r \in Outcomes(Model, x, ledger, storage) :
         r.m.scrollOffset # scrollOffset =>
           /\ x.type = "key"
           /\ \/ x.key = "tab" /\ ~loading /\ ~processing
                  /\ r.m.scrollOffset = 0
              \/ activePanel = 1
                  /\ x.key \in {"up", "down", "ctrl+up", "ctrl+down"}

\* C38: rendering never fails: in every reachable state, whatever the
\* lengths of the repository and entry names and the size of the window,
\* the padding count of the cursor line (35 - length of the text - 4) and
\* the bounds of the log truncation (panel width - 6 - 3) are not negative,
\* so that View raises no runtime error.
C38_RenderingSafe ==
  Alive =>
    /\ \A n \in PaddingCounts(Model) : n >= 0
    /\ \A b \in TruncationBounds(Model) : b >= 0
    /\ View(Model) = "ok"

\* C39: a fetch action reports success only when the remote retrieval has
\* succeeded: when the remote answers with a non-success status, or when the
\* action reports an error after it started writing, the completion event
\* carries an error and no file is left under the entry's name, so that no
\* probe sees a partial or bogus file as present.
C39_FetchAllOrNothing ==
  /\ \A c \in {k \in inflight : k.kind = "download"} :
       \A outcome \in DownloadOutcomes(c) :
         LET d == downloadFile(c, outcome, storage) IN
         /\ ~d.err => outcome = "ok"
         /\ outcome \in {"http_status", "copy_err"} =>
              d.err /\ ~Stat(d.sto, c.name)
  /\ \A name \in DOMAIN storage : Stat(storage, name) => storage[name] = "full"

====
